---- MODULE Spec2Model ----
(***************************************************************************)
(* Model of api/query_commons.py (FAForever/api): the helpers that turn    *)
(* JSON-API query parameters into SQL fragments, and fetch_data, which     *)
(* composes them, runs one SELECT and shapes the rows into a document.     *)
(*                                                                         *)
(* A Python string is a sequence of one-symbol strings, e.g. "a,-id" is    *)
(* <<"a", ",", "-", "id">>; the field name `id` is one symbol.  An         *)
(* optional value (None / an absent request parameter) is a record         *)
(* [present, v].  A dict is a sequence of [k, e] pairs with distinct keys, *)
(* in insertion order.                                                     *)
(***************************************************************************)
EXTENDS Integers, Sequences, FiniteSets, TLC

VARIABLES
    pc,                     \* position in the running function
    request,                \* request.values: fields, sort, psize, pnum
    max_page_size,          \* fetch_data / get_page_attributes parameter
    many,                   \* fetch_data parameter
    limit,                  \* fetch_data parameter
    sort,                   \* fetch_data parameter (explicit sort override)
    enricher,               \* fetch_data parameter: TRUE iff a callback is given
    root_select_expression_dict,
    nested_expression_dict, \* sequence of [name, dict]
    fields,                 \* local of fetch_data / argument of the helpers
    id_selected,            \* local of fetch_data
    select_expressions,     \* local of fetch_data: sequence of [expr, alias]
    limit_expression,       \* local of fetch_data: [present, offset, count]
    order_by_expression,    \* local of fetch_data: sequence of [column, order]
    scope,                  \* "closed" | "open" : the `with db.connection` block
    db,                     \* what the call did to the database so far
    result,                 \* rows fetched
    data,                   \* the document
    steps,                  \* post-fetch steps run: enriched, dumped, fixups
    ret                     \* outcome of the call

vars == <<pc, request, max_page_size, many, limit, sort, enricher,
          root_select_expression_dict, nested_expression_dict, fields,
          id_selected, select_expressions, limit_expression,
          order_by_expression, scope, db, result, data, steps, ret>>

(***************************************************************************)
(* Bounds                                                                  *)
(***************************************************************************)
MaxRows == 2        \* rows a statement returns
MaxSortLen == 5     \* symbols of a sort expression given to get_order_by
MaxFields == 3      \* entries of a fields list given to get_select_expressions
MaxRawLen == 2      \* symbols of a raw page[size] / page[number] value
MaxPageSizeArg == 3 \* largest max_page_size argument

(***************************************************************************)
(* Optional values and strings                                             *)
(***************************************************************************)
None == [present |-> FALSE, v |-> <<>>]

Some(x) == [present |-> TRUE, v |-> x]

\* Python truthiness of an optional string / list: None and '' are falsy.
Truthy(o) == o.present /\ o.v # <<>>

\* every sequence over `alphabet` of at most n entries
RECURSIVE Strings(_, _)
Strings(alphabet, n) ==
    IF n = 0 THEN {<<>>}
    ELSE LET shorter == Strings(alphabet, n - 1)
         IN  shorter \cup {Append(s, c) : s \in shorter, c \in alphabet}

\* str.split(sep): always at least one token; adjacent separators give ''.
RECURSIVE split(_, _)
split(s, sep) ==
    IF \A i \in 1..Len(s) : s[i] # sep
    THEN <<s>>
    ELSE LET k == CHOOSE i \in 1..Len(s) :
                      s[i] = sep /\ \A j \in 1..(i - 1) : s[j] # sep
         IN  <<SubSeq(s, 1, k - 1)>> \o split(SubSeq(s, k + 1, Len(s)), sep)

Range(s) == {s[i] : i \in 1..Len(s)}

(***************************************************************************)
(* int() and str() on the values a request can carry                       *)
(***************************************************************************)
Digits == <<"0", "1", "2", "3", "4", "5", "6", "7", "8", "9">>

IsDigit(c) == \E d \in 1..10 : Digits[d] = c

DigitVal(c) == (CHOOSE d \in 1..10 : Digits[d] = c) - 1

RECURSIVE strip(_)
strip(s) ==
    IF s # <<>> /\ s[1] = " " THEN strip(Tail(s))
    ELSE IF s # <<>> /\ s[Len(s)] = " " THEN strip(SubSeq(s, 1, Len(s) - 1))
    ELSE s

Unsigned(s) ==
    LET t == strip(s)
    IN  IF t # <<>> /\ t[1] \in {"+", "-"} THEN Tail(t) ELSE t

\* int(s) raises ValueError unless s is [space]* [sign] digit+ [space]*
RaisesValueError(s) ==
    LET body == Unsigned(s)
    IN  body = <<>> \/ \E i \in 1..Len(body) : ~IsDigit(body[i])

RECURSIVE Magnitude(_)
Magnitude(body) ==
    IF body = <<>> THEN 0
    ELSE 10 * Magnitude(SubSeq(body, 1, Len(body) - 1)) + DigitVal(body[Len(body)])

int(s) ==
    LET t == strip(s)
    IN  IF t[1] = "-" THEN 0 - Magnitude(Unsigned(s)) ELSE Magnitude(Unsigned(s))

RECURSIVE NatStr(_)
NatStr(n) ==
    IF n < 10 THEN <<Digits[n + 1]>>
    ELSE Append(NatStr(n \div 10), Digits[(n % 10) + 1])

\* str(n) for an int n, as the error renderer formats it
str(n) == IF n < 0 THEN <<"-">> \o NatStr(0 - n) ELSE NatStr(n)

(***************************************************************************)
(* ApiException([Error(code, value)])                                      *)
(***************************************************************************)
NoError == [code |-> "NONE", is_raw |-> FALSE, n |-> 0, s |-> <<>>]

\* Error(code, <int>)
ErrorInt(code, n) == [code |-> code, is_raw |-> FALSE, n |-> n, s |-> <<>>]

\* Error(code, <str>)
ErrorStr(code, s) == [code |-> code, is_raw |-> TRUE, n |-> 0, s |-> s]

\* the text of the value an error carries
Carried(e) == IF e.is_raw THEN e.s ELSE str(e.n)

ValidationCodes ==
    {"QUERY_INVALID_SORT_FIELD", "QUERY_INVALID_PAGE_SIZE", "QUERY_INVALID_PAGE_NUMBER"}

(***************************************************************************)
(* get_page_attributes, get_limit                                          *)
(***************************************************************************)
Accepted(page, page_size) ==
    [ok |-> TRUE, page |-> page, page_size |-> page_size, error |-> NoError]

Rejected(e) == [ok |-> FALSE, page |-> 0, page_size |-> 0, error |-> e]

\* the page number half of get_page_attributes, reached once page_size is set
PageNumberPart(page_size, req) ==
    IF ~req.pnum.present
    THEN Accepted(1, page_size)
    ELSE IF RaisesValueError(req.pnum.v)
    THEN Rejected(ErrorStr("QUERY_INVALID_PAGE_NUMBER", req.pnum.v))
    ELSE IF int(req.pnum.v) < 1
    THEN Rejected(ErrorInt("QUERY_INVALID_PAGE_NUMBER", int(req.pnum.v)))
    ELSE Accepted(int(req.pnum.v), page_size)

\* faulty variant: the page-size upper bound is not checked
get_page_attributes_unbounded(max, req) ==
    IF ~req.psize.present
    THEN PageNumberPart(max, req)
    ELSE IF RaisesValueError(req.psize.v)
    THEN Rejected(ErrorStr("QUERY_INVALID_PAGE_SIZE", req.psize.v))
    ELSE PageNumberPart(int(req.psize.v), req)

get_page_attributes(max, req) ==
    IF ~req.psize.present
    THEN PageNumberPart(max, req)
    ELSE IF RaisesValueError(req.psize.v)
    THEN Rejected(ErrorStr("QUERY_INVALID_PAGE_SIZE", req.psize.v))
    ELSE IF int(req.psize.v) > max
    THEN Rejected(ErrorInt("QUERY_INVALID_PAGE_SIZE", int(req.psize.v)))
    ELSE PageNumberPart(int(req.psize.v), req)

NoLimit == [present |-> FALSE, offset |-> 0, count |-> 0]

\* 'LIMIT {}, {}'.format((page - 1) * limit, limit)
get_limit(page, page_limit) ==
    [present |-> TRUE, offset |-> (page - 1) * page_limit, count |-> page_limit]

(***************************************************************************)
(* Dicts                                                                   *)
(***************************************************************************)
Keys(d) == [i \in 1..Len(d) |-> d[i].k]

HasKey(d, k) == \E i \in 1..Len(d) : d[i].k = k

Lookup(d, k) == d[CHOOSE i \in 1..Len(d) : d[i].k = k].e

\* d[k] = e: an existing key keeps its place, a new key goes last
SetItem(d, k, e) ==
    IF HasKey(d, k)
    THEN [i \in 1..Len(d) |-> IF d[i].k = k THEN [k |-> k, e |-> e] ELSE d[i]]
    ELSE Append(d, [k |-> k, e |-> e])

\* d.update(other)
RECURSIVE update(_, _)
update(d, other) ==
    IF other = <<>> THEN d
    ELSE update(SetItem(d, Head(other).k, Head(other).e), Tail(other))

(***************************************************************************)
(* get_select_expressions                                                  *)
(***************************************************************************)
\* the loop of lines 34-37: one "expr AS `field`" per field found in the dict
RECURSIVE field_selects(_, _)
field_selects(fs, d) ==
    IF fs = <<>> THEN <<>>
    ELSE (IF HasKey(d, Head(fs))
          THEN <<[expr |-> Lookup(d, Head(fs)), alias |-> Head(fs)]>>
          ELSE <<>>)
         \o field_selects(Tail(fs), d)

\* faulty variant: the `if not fields` fallback to every key is missing
get_select_expressions_no_default(fs, d) ==
    field_selects(fs.v, d)

\* fs is an optional list; the result is the list that ', '.join renders
get_select_expressions(fs, d) ==
    field_selects(IF Truthy(fs) THEN fs.v ELSE Keys(d), d)

(***************************************************************************)
(* get_order_by                                                            *)
(***************************************************************************)
Sorted(order_bys) == [ok |-> TRUE, order_bys |-> order_bys, error |-> NoError]

SortRejected(e) == [ok |-> FALSE, order_bys |-> <<>>, error |-> e]

\* the loop of lines 72-86; raising ends it
RECURSIVE order_by_loop(_, _, _)
order_by_loop(sort_expressions, valid_fields, order_bys) ==
    IF sort_expressions = <<>> THEN Sorted(order_bys)
    ELSE LET expression == Head(sort_expressions)
         IN  IF expression = <<>> \/ expression = <<"-">>
             THEN order_by_loop(Tail(sort_expressions), valid_fields, order_bys)
             ELSE LET order == IF expression[1] = "-" THEN "DESC" ELSE "ASC"
                      column == IF expression[1] = "-" THEN Tail(expression)
                                ELSE expression
                  IN  IF column \notin Range(valid_fields)
                      THEN SortRejected(ErrorStr("QUERY_INVALID_SORT_FIELD", column))
                      ELSE order_by_loop(Tail(sort_expressions), valid_fields,
                                         Append(order_bys,
                                                [column |-> column, order |-> order]))

\* faulty variant: a column outside valid_fields is dropped instead of rejected
RECURSIVE order_by_loop_lenient(_, _, _)
order_by_loop_lenient(sort_expressions, valid_fields, order_bys) ==
    IF sort_expressions = <<>> THEN Sorted(order_bys)
    ELSE LET expression == Head(sort_expressions)
         IN  IF expression = <<>> \/ expression = <<"-">>
             THEN order_by_loop_lenient(Tail(sort_expressions), valid_fields, order_bys)
             ELSE LET order == IF expression[1] = "-" THEN "DESC" ELSE "ASC"
                      column == IF expression[1] = "-" THEN Tail(expression)
                                ELSE expression
                  IN  IF column \notin Range(valid_fields)
                      THEN order_by_loop_lenient(Tail(sort_expressions), valid_fields,
                                                 order_bys)
                      ELSE order_by_loop_lenient(Tail(sort_expressions), valid_fields,
                                                 Append(order_bys,
                                                        [column |-> column,
                                                         order |-> order]))

get_order_by_lenient(sort_expression, valid_fields) ==
    IF ~Truthy(sort_expression) THEN Sorted(<<>>)
    ELSE order_by_loop_lenient(split(sort_expression.v, ","), valid_fields, <<>>)

\* the empty order_bys list stands for '', a non-empty one for 'ORDER BY ...'
get_order_by(sort_expression, valid_fields) ==
    IF ~Truthy(sort_expression) THEN Sorted(<<>>)
    ELSE order_by_loop(split(sort_expression.v, ","), valid_fields, <<>>)

(***************************************************************************)
(* fetch_data: field sanitizing (lines 118-142)                            *)
(***************************************************************************)
ID == <<"id">>

\* select_dict = {**root}; for nested_dict in nested.values(): update
RECURSIVE merge_nested(_, _)
merge_nested(select_dict, nested) ==
    IF nested = <<>> THEN select_dict
    ELSE merge_nested(update(select_dict, Head(nested).dict), Tail(nested))

NestedNames(nested) == {nested[i].name : i \in 1..Len(nested)}

NestedDict(nested, name) ==
    nested[CHOOSE i \in 1..Len(nested) : nested[i].name = name].dict

\* for nested_field in nested_fields: fields.extend([*nested[nested_field]])
RECURSIVE extend_nested(_, _, _)
extend_nested(fs, nested_fields, nested) ==
    IF nested_fields = <<>> THEN fs
    ELSE extend_nested(fs \o Keys(NestedDict(nested, Head(nested_fields))),
                       Tail(nested_fields), nested)

InDict(select_dict, field) == HasKey(select_dict, field)

\* lines 128-134
sanitize_fields(requested_fields, select_dict, nested) ==
    IF Truthy(requested_fields)
    THEN LET tokens == split(requested_fields.v, ",")
             InSelect(field) == InDict(select_dict, field)
             IsNested(field) == field \in NestedNames(nested)
         IN  extend_nested(SelectSeq(tokens, InSelect),
                           SelectSeq(tokens, IsNested), nested)
    ELSE Keys(select_dict)

\* lines 136-140
force_id(fs) == IF ID \in Range(fs) THEN fs ELSE Append(fs, ID)

(***************************************************************************)
(* fetch_data: the document and its id fix-up (lines 176-188)              *)
(***************************************************************************)
NoId == [present |-> FALSE, v |-> 0]

\* a resource object as schema.dump leaves it: `id` sits beside `attributes`,
\* never inside it (comment of lines 178-180)
Resource(id, has_attributes) ==
    [id |-> id, has_attributes |-> has_attributes, attr_id |-> NoId]

\* lines 183-186: the loop stops at the first resource without attributes
RECURSIVE fix_up_many(_)
fix_up_many(items) ==
    IF items = <<>> THEN <<>>
    ELSE IF ~Head(items).has_attributes THEN items
    ELSE <<[Head(items) EXCEPT !.attr_id = Head(items).id]>>
         \o fix_up_many(Tail(items))

\* lines 187-188
fix_up_single(item) ==
    IF item.id.present /\ item.has_attributes
    THEN [item EXCEPT !.attr_id = item.id]
    ELSE item

\* lines 181-188; data['data'] is a sequence, of one resource in single mode
fix_up(is_many, selected, items) ==
    IF ~selected THEN items
    ELSE IF is_many THEN fix_up_many(items)
    ELSE <<fix_up_single(items[1])>>

(***************************************************************************)
(* fetch_data as a sequence of steps                                       *)
(***************************************************************************)
NoDb ==
    [entered |-> 0, exited |-> 0, cursors |-> 0, statements |-> <<>>, fetches |-> 0]

NoSteps == [enriched |-> 0, dumped |-> 0, fixups |-> 0]

Pending == [kind |-> "pending", error |-> NoError]

Returned == [kind |-> "returned", error |-> NoError]

Raised(e) == [kind |-> "raised", error |-> e]

DbError == [code |-> "DB_ERROR", is_raw |-> FALSE, n |-> 0, s |-> <<>>]

select_dict == merge_nested(root_select_expression_dict, nested_expression_dict)

\* lines 118-142
BuildSelect ==
    /\ pc = "start"
    /\ sort' = IF Truthy(sort) THEN sort ELSE request.sort
    /\ LET sanitized == sanitize_fields(request.fields, select_dict,
                                        nested_expression_dict)
       IN  /\ fields' = force_id(sanitized)
           /\ id_selected' = (ID \in Range(sanitized))
           /\ select_expressions' =
                  get_select_expressions(Some(force_id(sanitized)), select_dict)
    /\ pc' = "validate"
    /\ UNCHANGED <<request, max_page_size, many, limit, enricher,
                   root_select_expression_dict, nested_expression_dict,
                   limit_expression, order_by_expression, scope, db, result,
                   data, steps, ret>>

\* faulty variant: the with block is entered before the parameters are validated
ValidateInScope ==
    /\ pc = "validate"
    /\ LET pages == IF many THEN get_page_attributes(max_page_size, request)
                    ELSE Accepted(1, max_page_size)
           order == IF many /\ pages.ok THEN get_order_by(sort, fields)
                    ELSE Sorted(<<>>)
       IN  IF pages.ok /\ order.ok
           THEN /\ limit_expression' = IF many /\ limit
                                       THEN get_limit(pages.page, pages.page_size)
                                       ELSE NoLimit
                /\ order_by_expression' = order.order_bys
                /\ pc' = "with"
                /\ UNCHANGED <<ret, db>>
           ELSE /\ ret' = Raised(IF pages.ok THEN order.error ELSE pages.error)
                /\ db' = [db EXCEPT !.entered = @ + 1, !.exited = @ + 1]
                /\ pc' = "raised"
                /\ UNCHANGED <<limit_expression, order_by_expression>>
    /\ UNCHANGED <<request, max_page_size, many, limit, sort, enricher,
                   root_select_expression_dict, nested_expression_dict, fields,
                   id_selected, select_expressions, scope, result, data, steps>>

\* lines 144-156
Validate ==
    /\ pc = "validate"
    /\ LET pages == IF many THEN get_page_attributes(max_page_size, request)
                    ELSE Accepted(1, max_page_size)
           order == IF many /\ pages.ok THEN get_order_by(sort, fields)
                    ELSE Sorted(<<>>)
       IN  IF pages.ok /\ order.ok
           THEN /\ limit_expression' = IF many /\ limit
                                       THEN get_limit(pages.page, pages.page_size)
                                       ELSE NoLimit
                /\ order_by_expression' = order.order_bys
                /\ pc' = "with"
                /\ ret' = ret
           ELSE /\ ret' = Raised(IF pages.ok THEN order.error ELSE pages.error)
                /\ pc' = "raised"
                /\ UNCHANGED <<limit_expression, order_by_expression>>
    /\ UNCHANGED <<request, max_page_size, many, limit, sort, enricher,
                   root_select_expression_dict, nested_expression_dict, fields,
                   id_selected, select_expressions, scope, db, result, data,
                   steps>>

\* line 158: with db.connection
EnterScope ==
    /\ pc = "with"
    /\ scope' = "open"
    /\ db' = [db EXCEPT !.entered = @ + 1]
    /\ pc' = "cursor"
    /\ UNCHANGED <<request, max_page_size, many, limit, sort, enricher,
                   root_select_expression_dict, nested_expression_dict, fields,
                   id_selected, select_expressions, limit_expression,
                   order_by_expression, result, data, steps, ret>>

\* line 159
CreateCursor ==
    /\ pc = "cursor"
    /\ db' = [db EXCEPT !.cursors = @ + 1]
    /\ pc' = "execute"
    /\ UNCHANGED <<request, max_page_size, many, limit, sort, enricher,
                   root_select_expression_dict, nested_expression_dict, fields,
                   id_selected, select_expressions, limit_expression,
                   order_by_expression, scope, result, data, steps, ret>>

\* the statement of lines 160-161, by its generated parts
Statement ==
    [select |-> select_expressions, order_by |-> order_by_expression,
     limit |-> limit_expression]

\* lines 160-162
Execute ==
    /\ pc = "execute"
    /\ db' = [db EXCEPT !.statements = Append(@, Statement)]
    /\ pc' = "fetch"
    /\ UNCHANGED <<request, max_page_size, many, limit, sort, enricher,
                   root_select_expression_dict, nested_expression_dict, fields,
                   id_selected, select_expressions, limit_expression,
                   order_by_expression, scope, result, data, steps, ret>>

\* faulty variant: an error inside the block leaves it without releasing the scope
UnwindLeaking(exited_db) ==
    /\ scope' = scope
    /\ db' = [exited_db EXCEPT !.exited = @]
    /\ ret' = Raised(DbError)
    /\ pc' = "raised"
    /\ UNCHANGED <<request, max_page_size, many, limit, sort, enricher,
                   root_select_expression_dict, nested_expression_dict, fields,
                   id_selected, select_expressions, limit_expression,
                   order_by_expression, result, data, steps>>

\* an error raised inside the with block: __exit__ runs, the error propagates
Unwind(exited_db) ==
    /\ scope' = "closed"
    /\ db' = [exited_db EXCEPT !.exited = @ + 1]
    /\ ret' = Raised(DbError)
    /\ pc' = "raised"
    /\ UNCHANGED <<request, max_page_size, many, limit, sort, enricher,
                   root_select_expression_dict, nested_expression_dict, fields,
                   id_selected, select_expressions, limit_expression,
                   order_by_expression, result, data, steps>>

\* line 159 raises
CursorRaises == pc = "cursor" /\ Unwind(db)

\* lines 160-162 raise
ExecuteRaises ==
    pc = "execute" /\ Unwind([db EXCEPT !.statements = Append(@, Statement)])

\* lines 165 / 167 raise
FetchRaises == pc = "fetch" /\ Unwind([db EXCEPT !.fetches = @ + 1])

\* the rows a statement can return: row i has id i when `id` is selected
Rows(n) ==
    [i \in 1..n |->
        IF \E j \in 1..Len(select_expressions) : select_expressions[j].alias = ID
        THEN [present |-> TRUE, v |-> i] ELSE NoId]

\* lines 164-167, and the normal exit of the with block
Fetch ==
    /\ pc = "fetch"
    /\ \E n \in 0..MaxRows :
           /\ many \/ n <= 1
           /\ result' = Rows(n)
    /\ scope' = "closed"
    /\ db' = [db EXCEPT !.fetches = @ + 1, !.exited = @ + 1]
    /\ pc' = "enrich"
    /\ UNCHANGED <<request, max_page_size, many, limit, sort, enricher,
                   root_select_expression_dict, nested_expression_dict, fields,
                   id_selected, select_expressions, limit_expression,
                   order_by_expression, data, steps, ret>>

\* lines 169-174
Enrich ==
    /\ pc = "enrich"
    /\ steps' = [steps EXCEPT !.enriched =
                     IF enricher THEN Len(result) ELSE 0]
    /\ pc' = "dump"
    /\ UNCHANGED <<request, max_page_size, many, limit, sort, enricher,
                   root_select_expression_dict, nested_expression_dict, fields,
                   id_selected, select_expressions, limit_expression,
                   order_by_expression, scope, db, result, data, ret>>

\* line 176: schema.dump(result, many=many).data.  The schema and the enricher
\* decide which resources get an attributes object; a missing single row
\* dumps to a resource with neither id nor attributes.
Dump ==
    /\ pc = "dump"
    /\ IF ~many /\ result = <<>>
       THEN data' = <<Resource(NoId, FALSE)>>
       ELSE \E attrs \in [1..Len(result) -> BOOLEAN] :
                data' = [i \in 1..Len(result) |-> Resource(result[i], attrs[i])]
    /\ steps' = [steps EXCEPT !.dumped = @ + 1]
    /\ pc' = "fixup"
    /\ UNCHANGED <<request, max_page_size, many, limit, sort, enricher,
                   root_select_expression_dict, nested_expression_dict, fields,
                   id_selected, select_expressions, limit_expression,
                   order_by_expression, scope, db, result, ret>>

\* lines 181-190
FixUp ==
    /\ pc = "fixup"
    /\ data' = fix_up(many, id_selected, data)
    /\ steps' = [steps EXCEPT !.fixups = IF id_selected THEN 1 ELSE 0]
    /\ ret' = Returned
    /\ pc' = "returned"
    /\ UNCHANGED <<request, max_page_size, many, limit, sort, enricher,
                   root_select_expression_dict, nested_expression_dict, fields,
                   id_selected, select_expressions, limit_expression,
                   order_by_expression, scope, db, result>>

(***************************************************************************)
(* Calls of fetch_data                                                     *)
(***************************************************************************)
RootDicts ==
    { <<[k |-> ID, e |-> "t.id"], [k |-> <<"a">>, e |-> "t.a"]>>,
      <<[k |-> <<"a">>, e |-> "t.a"]>> }

NestedDicts ==
    { <<>>,
      <<[name |-> <<"n">>,
         dict |-> <<[k |-> <<"b">>, e |-> "n.b"], [k |-> <<"a">>, e |-> "n.a"]>>]>> }

FieldsParams ==
    { None, Some(<<"id">>), Some(<<"a">>), Some(<<"a", ",", "id">>),
      Some(<<"a", ",", "n">>), Some(<<"x">>) }

SortParams ==
    { None, Some(<<"a">>), Some(<<"-", "id">>), Some(<<",", "-">>),
      Some(<<"-", "a", ",", "x">>) }

SortArgs == { None, Some(<<"b">>) }

PageSizeParams == { None, Some(<<"1">>), Some(<<"0">>), Some(<<"x">>) }

PageNumberParams == { None, Some(<<"2">>), Some(<<"0">>) }

Requests ==
    [fields : FieldsParams, sort : SortParams, psize : PageSizeParams,
     pnum : PageNumberParams]

Init ==
    /\ pc = "start"
    /\ request \in Requests
    /\ max_page_size = MaxPageSizeArg
    /\ many \in BOOLEAN
    /\ limit \in BOOLEAN
    /\ sort \in SortArgs
    /\ enricher \in BOOLEAN
    /\ root_select_expression_dict \in RootDicts
    /\ nested_expression_dict \in NestedDicts
    /\ fields = <<>>
    /\ id_selected = FALSE
    /\ select_expressions = <<>>
    /\ limit_expression = NoLimit
    /\ order_by_expression = <<>>
    /\ scope = "closed"
    /\ db = NoDb
    /\ result = <<>>
    /\ data = <<>>
    /\ steps = NoSteps
    /\ ret = Pending

Next ==
    \/ BuildSelect
    \/ Validate
    \/ EnterScope
    \/ CreateCursor
    \/ CursorRaises
    \/ Execute
    \/ ExecuteRaises
    \/ Fetch
    \/ FetchRaises
    \/ Enrich
    \/ Dump
    \/ FixUp

Spec == Init /\ [][Next]_vars

(***************************************************************************)
(* Calls of the helpers on their own                                       *)
(***************************************************************************)
\* what a helper call leaves alone
Idle ==
    /\ many = FALSE
    /\ limit = FALSE
    /\ enricher = FALSE
    /\ nested_expression_dict = <<>>
    /\ id_selected = FALSE
    /\ order_by_expression = <<>>
    /\ scope = "closed"
    /\ db = NoDb
    /\ result = <<>>
    /\ data = <<>>
    /\ steps = NoSteps

HelperFrame ==
    UNCHANGED <<request, max_page_size, many, limit, sort, enricher,
                root_select_expression_dict, nested_expression_dict, fields,
                id_selected, order_by_expression, scope, db, result, data,
                steps>>

RawChars == {"0", "1", "3", "-", "x"}

RawParams == {None} \cup {Some(s) : s \in Strings(RawChars, MaxRawLen)}

InitPage ==
    /\ Idle
    /\ pc = "page_call"
    /\ request \in [fields : {None}, sort : {None}, psize : RawParams,
                    pnum : RawParams]
    /\ max_page_size \in 1..MaxPageSizeArg
    /\ sort = None
    /\ root_select_expression_dict = <<>>
    /\ fields = <<>>
    /\ select_expressions = <<>>
    /\ limit_expression = NoLimit
    /\ ret = Pending

\* get_page_attributes(max_page_size, request), then get_limit on what it returns
CallPage ==
    /\ pc = "page_call"
    /\ ret' = get_page_attributes(max_page_size, request)
    /\ limit_expression' = IF ret'.ok THEN get_limit(ret'.page, ret'.page_size)
                           ELSE NoLimit
    /\ pc' = "page_done"
    /\ select_expressions' = select_expressions
    /\ HelperFrame

SpecPage == InitPage /\ [][CallPage]_vars

SortChars == {"-", ",", "a", "b"}

ValidFieldLists ==
    { <<>>, <<<<"a">>>>, <<<<"b">>>>, <<<<"a">>, <<"b">>>>, <<<<"-", "a">>>>,
      <<<<"b">>, <<"a", "b">>>> }

InitOrder ==
    /\ Idle
    /\ pc = "order_call"
    /\ request = [fields |-> None, sort |-> None, psize |-> None, pnum |-> None]
    /\ max_page_size = MaxPageSizeArg
    /\ sort \in {None} \cup {Some(s) : s \in Strings(SortChars, MaxSortLen)}
    /\ root_select_expression_dict = <<>>
    /\ fields \in ValidFieldLists
    /\ select_expressions = <<>>
    /\ limit_expression = NoLimit
    /\ ret = Pending

\* get_order_by(sort, fields)
CallOrder ==
    /\ pc = "order_call"
    /\ ret' = get_order_by(sort, fields)
    /\ pc' = "order_done"
    /\ UNCHANGED <<select_expressions, limit_expression>>
    /\ HelperFrame

SpecOrder == InitOrder /\ [][CallOrder]_vars

FieldNames == {ID, <<"a">>, <<"b">>, <<"x">>}

ExpressionDicts ==
    { <<>>,
      <<[k |-> ID, e |-> "map.uid"]>>,
      <<[k |-> <<"a">>, e |-> "t.a"], [k |-> ID, e |-> "map.uid"]>>,
      <<[k |-> ID, e |-> "map.uid"], [k |-> <<"b">>, e |-> "t.b"],
        [k |-> <<"a">>, e |-> "t.a"]>>,
      <<[k |-> <<"b">>, e |-> "t.b"], [k |-> <<"a">>, e |-> "t.a"]>> }

InitSelect ==
    /\ Idle
    /\ pc = "select_call"
    /\ request = [fields |-> None, sort |-> None, psize |-> None, pnum |-> None]
    /\ max_page_size = MaxPageSizeArg
    /\ sort = None
    /\ root_select_expression_dict \in ExpressionDicts
    /\ fields \in {None} \cup {Some(l) : l \in Strings(FieldNames, MaxFields)}
    /\ select_expressions = <<>>
    /\ limit_expression = NoLimit
    /\ ret = Pending

\* get_select_expressions(fields, field_expression_dict)
CallSelect ==
    /\ pc = "select_call"
    /\ select_expressions' = get_select_expressions(fields, root_select_expression_dict)
    /\ pc' = "select_done"
    /\ UNCHANGED <<limit_expression, ret>>
    /\ HelperFrame

SpecSelect == InitSelect /\ [][CallSelect]_vars

(***************************************************************************)
(* Claims about get_page_attributes and get_limit (SpecPage)               *)
(***************************************************************************)
SizeUnparsable == request.psize.present /\ RaisesValueError(request.psize.v)

SizeTooBig ==
    /\ request.psize.present
    /\ ~RaisesValueError(request.psize.v)
    /\ int(request.psize.v) > max_page_size

NumberUnparsable == request.pnum.present /\ RaisesValueError(request.pnum.v)

NumberTooSmall ==
    /\ request.pnum.present
    /\ ~RaisesValueError(request.pnum.v)
    /\ int(request.pnum.v) < 1

ExpectedPageSize ==
    IF request.psize.present THEN int(request.psize.v) ELSE max_page_size

ExpectedPage == IF request.pnum.present THEN int(request.pnum.v) ELSE 1

\* C2 as stated: a bad page[size] always gives QUERY_INVALID_PAGE_SIZE with the
\* raw value, a bad page[number] always gives QUERY_INVALID_PAGE_NUMBER with
\* the raw value, and every other input is accepted with the defaults filled in.
C2_RawValueAlwaysCarried ==
    pc = "page_done" =>
        /\ (SizeUnparsable \/ SizeTooBig) =>
               /\ ~ret.ok
               /\ ret.error.code = "QUERY_INVALID_PAGE_SIZE"
               /\ Carried(ret.error) = request.psize.v
        /\ (NumberUnparsable \/ NumberTooSmall) =>
               /\ ~ret.ok
               /\ ret.error.code = "QUERY_INVALID_PAGE_NUMBER"
               /\ Carried(ret.error) = request.pnum.v
        /\ ~(SizeUnparsable \/ SizeTooBig \/ NumberUnparsable \/ NumberTooSmall) =>
               ret = Accepted(ExpectedPage, ExpectedPageSize)

\* C2 amended: page[size] is judged first.  An unparsable page[size] gives
\* QUERY_INVALID_PAGE_SIZE with the raw value, one above max_page_size gives it
\* with the parsed integer; only when page[size] passes, an unparsable
\* page[number] gives QUERY_INVALID_PAGE_NUMBER with the raw value and one
\* below 1 gives it with the parsed integer; every other input returns
\* (page, page_size), page 1 and max_page_size standing in for absent ones.
C2_PageAttributes ==
    pc = "page_done" =>
        IF SizeUnparsable
        THEN ret = Rejected(ErrorStr("QUERY_INVALID_PAGE_SIZE", request.psize.v))
        ELSE IF SizeTooBig
        THEN ret = Rejected(ErrorInt("QUERY_INVALID_PAGE_SIZE", int(request.psize.v)))
        ELSE IF NumberUnparsable
        THEN ret = Rejected(ErrorStr("QUERY_INVALID_PAGE_NUMBER", request.pnum.v))
        ELSE IF NumberTooSmall
        THEN ret = Rejected(ErrorInt("QUERY_INVALID_PAGE_NUMBER", int(request.pnum.v)))
        ELSE ret = Accepted(ExpectedPage, ExpectedPageSize)

\* a page[size] above the maximum whose text is not the text of its integer
C2_Witness ==
    /\ pc = "page_done"
    /\ SizeTooBig
    /\ ret.error.code = "QUERY_INVALID_PAGE_SIZE"
    /\ Carried(ret.error) # request.psize.v

\* C3 as stated: an accepted page has page >= 1 and 1 <= page size <=
\* max_page_size, so its LIMIT has offset >= 0 and count >= 1, and the row
\* range of the next page starts where this one ends without overlapping it.
C3_AcceptedPageIsPositive ==
    (pc = "page_done" /\ ret.ok) =>
        /\ ret.page >= 1
        /\ ret.page_size >= 1
        /\ ret.page_size <= max_page_size
        /\ limit_expression.offset = (ret.page - 1) * ret.page_size
        /\ limit_expression.offset >= 0
        /\ limit_expression.count >= 1
        /\ LET following == get_limit(ret.page + 1, ret.page_size)
           IN  /\ following.offset = limit_expression.offset + limit_expression.count
               /\ following.offset > limit_expression.offset

(***************************************************************************)
(* Claims about get_order_by (SpecOrder)                                   *)
(***************************************************************************)
Tokens == IF Truthy(sort) THEN split(sort.v, ",") ELSE <<>>

Survives(token) == token # <<>> /\ token # <<"-">>

Surviving == SelectSeq(Tokens, Survives)

ColumnOf(token) == IF token[1] = "-" THEN Tail(token) ELSE token

OrderOf(token) == IF token[1] = "-" THEN "DESC" ELSE "ASC"

Offending == {i \in 1..Len(Surviving) : ColumnOf(Surviving[i]) \notin Range(fields)}

\* C4: empty and lone `-` tokens are skipped; if some surviving token's column
\* is outside the allow-list the call fails with QUERY_INVALID_SORT_FIELD
\* carrying the first such column, and otherwise it returns the surviving
\* tokens' columns in input order, DESC for a `-` prefix and ASC without
\* (nothing at all when no token survives).
C4_OrderBy ==
    pc = "order_done" =>
        IF Offending = {}
        THEN /\ ret.ok
             /\ ret.order_bys =
                    [i \in 1..Len(Surviving) |->
                        [column |-> ColumnOf(Surviving[i]),
                         order |-> OrderOf(Surviving[i])]]
        ELSE LET first == CHOOSE i \in Offending : \A j \in Offending : i <= j
             IN  /\ ~ret.ok
                 /\ ret.error = ErrorStr("QUERY_INVALID_SORT_FIELD",
                                         ColumnOf(Surviving[first]))

\* a skipped token between an ascending and a descending column
C4_Witness ==
    /\ pc = "order_done"
    /\ ret.ok
    /\ Len(Tokens) > Len(Surviving)
    /\ Len(ret.order_bys) = 2
    /\ ret.order_bys[1].order = "ASC"
    /\ ret.order_bys[2].order = "DESC"

(***************************************************************************)
(* Claims about get_select_expressions (SpecSelect)                        *)
(***************************************************************************)
Aliases == [i \in 1..Len(select_expressions) |-> select_expressions[i].alias]

InMap(field) == HasKey(root_select_expression_dict, field)

FirstIndex(list, x) == CHOOSE i \in 1..Len(list) : list[i] = x /\ \A j \in 1..(i - 1) : list[j] # x

EntryFor(field) == [expr |-> Lookup(root_select_expression_dict, field), alias |-> field]

\* C5 as stated: for a non-empty list the select-list has one entry for each
\* requested field that is a key of the map, each exactly once, in requested
\* order, and no other entry; for an empty or absent list it has one entry
\* for every key, in map order.
C5_Deduplicated ==
    pc = "select_done" =>
        /\ \A i \in 1..Len(select_expressions) :
               select_expressions[i] = EntryFor(Aliases[i])
        /\ IF Truthy(fields)
           THEN /\ Range(Aliases) = {f \in Range(fields.v) : InMap(f)}
                /\ \A i, j \in 1..Len(Aliases) : i < j =>
                       /\ Aliases[i] # Aliases[j]
                       /\ FirstIndex(fields.v, Aliases[i]) < FirstIndex(fields.v, Aliases[j])
           ELSE Aliases = Keys(root_select_expression_dict)

\* C5 amended: for a non-empty list the select-list has one entry for each
\* occurrence of a requested field that is a key of the map, in requested
\* order, a field requested twice being listed twice, and no other entry; for
\* an empty or absent list it has one entry for every key, in map order.
C5_SelectList ==
    pc = "select_done" =>
        LET wanted == IF Truthy(fields) THEN SelectSeq(fields.v, InMap)
                      ELSE Keys(root_select_expression_dict)
        IN  select_expressions = [i \in 1..Len(wanted) |-> EntryFor(wanted[i])]

\* a field of the map requested twice, next to one the map does not have
C5_Witness ==
    /\ pc = "select_done"
    /\ Truthy(fields)
    /\ \E i, j \in 1..Len(Aliases) : i < j /\ Aliases[i] = Aliases[j]
    /\ \E i \in 1..Len(fields.v) : ~InMap(fields.v[i])

(***************************************************************************)
(* Claims about fetch_data (Spec)                                          *)
(***************************************************************************)
PageCodes == {"QUERY_INVALID_PAGE_SIZE", "QUERY_INVALID_PAGE_NUMBER"}

\* C1 as stated: in every returned document, single or many, whether or not
\* fields[<type>] names `id`, each resource that has an attributes object has
\* attributes.id equal to its data.id.
C1_IdAlwaysInAttributes ==
    pc = "returned" =>
        \A i \in 1..Len(data) :
            (data[i].has_attributes /\ data[i].id.present) =>
                data[i].attr_id = data[i].id

\* C6: a call that fails with one of the three validation errors has entered
\* no connection scope, created no cursor and executed no statement, and once
\* the database has been touched no validation error is raised.
C6_ValidationBeforeDatabase ==
    /\ (ret.kind = "raised" /\ ret.error.code \in ValidationCodes) =>
           (db = NoDb /\ scope = "closed")
    /\ db # NoDb => (pc \notin {"start", "validate"} /\ ret.error.code \notin ValidationCodes)

\* a many-mode call rejected for its sort field after its page passed
C6_Witness ==
    /\ pc = "raised"
    /\ many
    /\ ret.error.code = "QUERY_INVALID_SORT_FIELD"
    /\ get_page_attributes(max_page_size, request).ok

\* C7: the scope is open only between entering the with block and leaving it;
\* it is released when the fetch succeeds and when cursor creation, execution
\* or the fetch raises; after such an error the call has ended with that
\* error, one scope entry and at most one statement (no retry), and neither
\* enrichment, serialization nor the id fix-up has run.
C7_ScopeReleasedOnEveryExit ==
    /\ (scope = "open") = (pc \in {"cursor", "execute", "fetch"})
    /\ pc \in {"enrich", "dump", "fixup", "returned"} =>
           (db.entered = 1 /\ db.exited = 1 /\ Len(db.statements) = 1)
    /\ (pc = "raised" /\ ret.error = DbError) =>
           /\ db.entered = 1
           /\ db.exited = 1
           /\ Len(db.statements) <= 1
           /\ db.fetches <= 1
           /\ steps = NoSteps
           /\ data = <<>>

\* the statement ran and the fetch raised
C7_Witness ==
    /\ pc = "raised"
    /\ ret.error = DbError
    /\ db.fetches = 1
    /\ Len(db.statements) = 1
    /\ scope = "closed"

\* C8 as stated: in many mode, when the fix-up runs, every resource with an
\* attributes object gets attributes.id = data.id wherever it stands, and a
\* resource without one is left as it was.
C8_FixUpSkipsAndGoesOn ==
    (pc = "returned" /\ many /\ steps.fixups = 1) =>
        \A i \in 1..Len(data) :
            IF data[i].has_attributes
            THEN data[i].attr_id = data[i].id
            ELSE data[i] = Resource(data[i].id, FALSE)

\* C9 as stated: the statement carries a LIMIT exactly when many and limit
\* are both true, and otherwise no page[size] or page[number] value makes the
\* call fail with a page error.
C9_PaginationOnlyWhenEnabled ==
    /\ \A i \in 1..Len(db.statements) :
           db.statements[i].limit.present = (many /\ limit)
    /\ ~(many /\ limit) => ret.error.code \notin PageCodes

\* C10 as stated: every column of the ORDER BY of a statement executed in
\* many mode is the alias of an entry of that statement's select-list.
C10_SortColumnsAreSelected ==
    \A i \in 1..Len(db.statements) :
        many =>
            \A j \in 1..Len(db.statements[i].order_by) :
                \E k \in 1..Len(db.statements[i].select) :
                    db.statements[i].select[k].alias
                        = db.statements[i].order_by[j].column

====
